---- MODULE Spec2Model ----
(***************************************************************************)
(* Model of src/src/index.ts: createBaseMock (the callable recorder),      *)
(* createMock (the proxy that mocks members deeply), isMock, getCallInfo   *)
(* and createMockWithDefaults.                                             *)
(*                                                                         *)
(* heap      the mock functions created so far; heap[n] is the n-th `fn`   *)
(*           of createBaseMock with the closure variables impl, onceQueue  *)
(*           and depth, its logs fn.mock.calls / fn.mock.results and its   *)
(*           own properties (props)                                        *)
(* promises  the promises the behaviours produced                          *)
(* stack     the JavaScript call stack of pending invocations of `fn`      *)
(* last      the operation that just ran and what it gave its caller       *)
(* snapshots the objects getCallInfo returned, which a test still holds    *)
(* awaits    the async functions that reached an `await`, each with the    *)
(*           promise it waits for and how far the host got with it         *)
(***************************************************************************)
EXTENDS FiniteSets, Integers, Sequences, TLC

VARIABLES heap, promises, stack, last, snapshots, awaits

vars == <<heap, promises, stack, last, snapshots, awaits>>

(***************************************************************************)
(* Bounds of the model and the inputs the operations are tried with.       *)
(***************************************************************************)
MaxNodes == 3
MaxCalls == 3
MaxQueue == 2
MaxPromises == 2
MaxStandInCalls == 1
MaxStandIns == 3
MaxSnapshots == 1
MaxDefaults == 2
MaxAwaits == 1

MAX_DEPTH == 10

(***************************************************************************)
(* JavaScript values. Every value is a record [k, v]: k its kind, v what   *)
(* tells two values of the kind apart.                                     *)
(***************************************************************************)
UNDEF == [k |-> "undefined", v |-> 0]
NULL == [k |-> "null", v |-> 0]
NoVal == [k |-> "none", v |-> 0]
TypeError == [k |-> "TypeError", v |-> 0]
Data(i) == [k |-> "data", v |-> i]
Err(i) == [k |-> "error", v |-> i]
StandIn(n) == [k |-> "standin", v |-> n]
BaseMock(n) == [k |-> "basemock", v |-> n]
MockObj(n) == [k |-> "mockobj", v |-> n]
Method(n) == [k |-> "method", v |-> n]
PromiseRef(i) == [k |-> "promise", v |-> i]
FnBuiltin(i) == [k |-> "builtin", v |-> i]

(***************************************************************************)
(* Behaviours: the functions a recorder can run. "createMock" is the       *)
(* default of a stand-in, () => createMock(depth + 1); the next three are  *)
(* what mockReturnValue, mockResolvedValue and mockRejectedValue build;    *)
(* the remaining ones are functions a test passes to mockImplementation.   *)
(***************************************************************************)
Behaviour(b, v) == [b |-> b, v |-> v]
DefaultImpl == Behaviour("createMock", UNDEF)
ReturnsValue(v) == Behaviour("returnValue", v)
ResolvesValue(v) == Behaviour("resolvedValue", v)
RejectsValue(e) == Behaviour("rejectedValue", e)
Throws(e) == Behaviour("throws", e)
ReturnsPending == Behaviour("pendingPromise", UNDEF)
InvokesSelf == Behaviour("invokeSelf", UNDEF)
ClearsSelf == Behaviour("clearSelf", UNDEF)
ResetsSelf == Behaviour("resetSelf", UNDEF)

SimpleKinds == {"createMock", "returnValue", "resolvedValue", "rejectedValue",
                "throws", "pendingPromise"}

(***************************************************************************)
(* Member names. MockMemberNames is the list the get trap passes through;  *)
(* BaseMockMembers are the properties createBaseMock assigns on fn;        *)
(* FunctionMembers are the properties every function has by itself, of     *)
(* which name and length cannot be assigned.                               *)
(***************************************************************************)
MockMemberNames == {"mock", "mockImplementation", "mockImplementationOnce",
                    "mockResolvedValue", "mockResolvedValueOnce",
                    "mockRejectedValue", "mockRejectedValueOnce",
                    "mockReturnValue", "mockReturnValueOnce",
                    "mockClear", "mockReset", "mockRestore"}
BaseMockMembers == MockMemberNames \ {"mockRestore"}
FunctionMembers == {"name", "length", "prototype", "call", "apply", "bind",
                    "toString", "constructor"}
ReadOnlyMembers == {"name", "length"}

AllNames == {"a", "name", "mock", "bind"}

(* The names a member is read or assigned under anywhere in the model: the
   ones above and the member the host reads of an awaited value. *)
MemberNames == AllNames \cup {"then"}

Nodes == 1..Len(heap)

(***************************************************************************)
(* createBaseMock: a fresh fn with empty logs, the default behaviour, an   *)
(* empty once-queue and the members assigned on it. parent, seen and tally *)
(* are history: who generated the node, what each member read as since it  *)
(* was last assigned, and how many top-level invocations completed since   *)
(* construction (-1 once the logs were cleared, replaced or written by a   *)
(* nested invocation).                                                     *)
(***************************************************************************)
createBaseMock(id, d, par) ==
  [depth |-> d,
   calls |-> <<>>,
   results |-> <<>>,
   impl |-> DefaultImpl,
   onceQueue |-> <<>>,
   props |-> [p \in BaseMockMembers |-> IF p = "mock" THEN MockObj(id) ELSE Method(id)],
   parent |-> par,
   seen |-> [p \in MemberNames |-> NoVal],
   tally |-> 0]

(* The guard off by one: depth >= MAX_DEPTH. *)
DepthExceeded_offByOne(d) == d >= MAX_DEPTH

(* The depth guard of createMock. *)
DepthExceeded(d) == d > MAX_DEPTH

(* createMock(d): the heap after the call, and the value it returns. *)
createMockHeap(h, d, par) ==
  IF DepthExceeded(d) THEN h ELSE Append(h, createBaseMock(Len(h) + 1, d, par))

createMockValue(h, d) ==
  IF DepthExceeded(d) THEN UNDEF ELSE StandIn(Len(h) + 1)

(* target[prop]: an own property, else what a function carries, else undefined. *)
TargetGet(node, p) ==
  IF p \in DOMAIN node.props THEN node.props[p]
  ELSE IF p \in FunctionMembers THEN FnBuiltin(0)
  ELSE UNDEF

(* target[prop] = value on a writable property. *)
TargetSet(pr, p, v) ==
  [q \in (DOMAIN pr) \cup {p} |-> IF q = p THEN v ELSE pr[q]]

(* self.mock.calls / self.mock.results can be reached: fn.mock is still the
   object createBaseMock assigned. *)
HasLogs(node) == node.props["mock"].k = "mockobj"

Last(op, n, p, t, v) == [op |-> op, node |-> n, name |-> p, type |-> t, value |-> v]

(***************************************************************************)
(* The recorder fn, lines 33-46.                                           *)
(***************************************************************************)
PushCall(log, args) == Append(log, args)

ShiftQueue(q) == IF q = <<>> THEN q ELSE Tail(q)

(* onceQueue.pop() where the code has shift(): the newest one-shot first. *)
ToCall_newestFirst(q, impl) == IF q = <<>> THEN impl ELSE q[Len(q)]

ToCall(q, impl) == IF q = <<>> THEN impl ELSE Head(q)

(* The catch branch forgetting to record the throw. *)
PushResult_dropsThrow(log, t, v) ==
  IF t = "throw" THEN log ELSE Append(log, [type |-> t, value |-> v])

PushResult(log, t, v) == Append(log, [type |-> t, value |-> v])

Frame(n, f, a, c0, r0) ==
  [node |-> n, toCall |-> f, args |-> a, pc |-> "running",
   type |-> "none", value |-> NoVal, c0 |-> c0, r0 |-> r0]

Top == stack[Len(stack)]

Finish(fr, t, v) == [fr EXCEPT !.pc = "done", !.type = t, !.value = v]

SetTop(fr) == [stack EXCEPT ![Len(stack)] = fr]

(* The call recorded after the behaviour ran, not before. *)
Entered_callNotRecorded(node, a, nested) ==
  [node EXCEPT !.onceQueue = ShiftQueue(@),
               !.tally = IF nested THEN -1 ELSE @]

(* Lines 34-37: record the call, take the next one-shot behaviour. *)
Entered(node, a, nested) ==
  [node EXCEPT !.calls = PushCall(@, a),
               !.onceQueue = ShiftQueue(@),
               !.tally = IF nested THEN -1 ELSE @]

(* A test invokes the stand-in of node n with arguments a. *)
Invoke(n, a) ==
  /\ stack = <<>>
  /\ n \in Nodes
  /\ IF HasLogs(heap[n])
     THEN /\ heap' = [heap EXCEPT ![n] = Entered(@, a, FALSE)]
          /\ stack' = <<Frame(n, ToCall(heap[n].onceQueue, heap[n].impl), a,
                              Len(heap[n].calls), Len(heap[n].results))>>
          /\ last' = Last("enter", n, "", "none", NoVal)
     ELSE /\ last' = Last("call", n, "", "throw", TypeError)
          /\ UNCHANGED <<heap, stack>>
  /\ UNCHANGED <<promises, snapshots, awaits>>

(* Line 39 for a behaviour that touches no recorder: what toCall.apply gives. *)
(* mockRejectedValue built as () => { throw e }. *)
OutcomeType_rejectedThrows(f) ==
  IF f.b \in {"throws", "rejectedValue"} THEN "throw" ELSE "return"

OutcomeType(f) == IF f.b = "throws" THEN "throw" ELSE "return"

OutcomeValue(f, h, n, ps) ==
  CASE f.b = "createMock" -> createMockValue(h, h[n].depth + 1)
    [] f.b = "returnValue" -> f.v
    [] f.b = "throws" -> f.v
    [] OTHER -> PromiseRef(Len(ps) + 1)

NewPromise(f) ==
  CASE f.b = "resolvedValue" -> [state |-> "fulfilled", value |-> f.v]
    [] f.b = "rejectedValue" -> [state |-> "rejected", value |-> f.v]
    [] OTHER -> [state |-> "pending", value |-> UNDEF]

Apply ==
  /\ stack # <<>>
  /\ Top.pc = "running"
  /\ Top.toCall.b \in SimpleKinds
  /\ LET f == Top.toCall
         n == Top.node
     IN /\ stack' = SetTop(Finish(Top, OutcomeType(f), OutcomeValue(f, heap, n, promises)))
        /\ heap' = IF f.b = "createMock"
                   THEN createMockHeap(heap, heap[n].depth + 1, n)
                   ELSE heap
        /\ promises' = IF f.b \in {"resolvedValue", "rejectedValue", "pendingPromise"}
                       THEN Append(promises, NewPromise(f))
                       ELSE promises
        /\ last' = Last("apply", n, "", "none", NoVal)
  /\ UNCHANGED <<snapshots, awaits>>

(* Lines 40-45: record the outcome, then return or re-throw to the caller. *)
Return ==
  /\ stack # <<>>
  /\ Top.pc = "done"
  /\ LET n == Top.node
         m == Len(stack)
     IN /\ heap' = [heap EXCEPT ![n].results = PushResult(@, Top.type, Top.value),
                                ![n].tally = IF m = 1 /\ @ >= 0 THEN @ + 1 ELSE @]
        /\ IF m = 1
           THEN /\ stack' = <<>>
                /\ last' = Last("call", n, "", Top.type, Top.value)
           ELSE /\ stack' = [SubSeq(stack, 1, m - 1) EXCEPT
                               ![m - 1] = Finish(@, Top.type, Top.value)]
                /\ last' = Last("nested", n, "", Top.type, Top.value)
  /\ UNCHANGED <<promises, snapshots, awaits>>

(***************************************************************************)
(* Configuration, lines 50-78. Every method returns fn.                    *)
(***************************************************************************)
SetImpl(node, f) == [node EXCEPT !.impl = f]

QueueOnce(node, f) == [node EXCEPT !.onceQueue = Append(@, f)]

Configure(op, n, node) ==
  /\ stack = <<>>
  /\ n \in Nodes
  /\ heap' = [heap EXCEPT ![n] = node]
  /\ last' = Last(op, n, "", "return", BaseMock(n))
  /\ UNCHANGED <<promises, stack, snapshots, awaits>>

mockImplementation(n, f) == Configure("mockImplementation", n, SetImpl(heap[n], f))

mockImplementationOnce(n, f) == Configure("mockImplementationOnce", n, QueueOnce(heap[n], f))

mockReturnValue(n, v) == Configure("mockImplementation", n, SetImpl(heap[n], ReturnsValue(v)))

mockReturnValueOnce(n, v) == Configure("mockImplementationOnce", n, QueueOnce(heap[n], ReturnsValue(v)))

mockResolvedValue(n, v) == Configure("mockImplementation", n, SetImpl(heap[n], ResolvesValue(v)))

mockResolvedValueOnce(n, v) == Configure("mockImplementationOnce", n, QueueOnce(heap[n], ResolvesValue(v)))

mockRejectedValue(n, e) == Configure("mockImplementation", n, SetImpl(heap[n], RejectsValue(e)))

mockRejectedValueOnce(n, e) == Configure("mockImplementationOnce", n, QueueOnce(heap[n], RejectsValue(e)))

(* mockClear, lines 67-71: fn.mock.calls = []; fn.mock.results = []. *)
ClearLogs(node) == [node EXCEPT !.calls = <<>>, !.results = <<>>, !.tally = -1]

(* mockReset leaving the one-shot behaviours queued. *)
ResetRecorder_keepsQueue(node) == [ClearLogs(node) EXCEPT !.impl = DefaultImpl]

(* mockReset, lines 73-78: mockClear, impl = defaultImpl, onceQueue.length = 0. *)
ResetRecorder(node) ==
  [ClearLogs(node) EXCEPT !.impl = DefaultImpl, !.onceQueue = <<>>]

(* What a snapshot holds of a log: the array itself. Live is the array
   fn.mock has now, so the holder sees every later push; an array mockClear
   replaced is no longer written and keeps the items it had. *)
Live == [live |-> TRUE, items |-> <<>>]

Detached(items) == [live |-> FALSE, items |-> items]

(* Lines 68-69 seen from the snapshots of node n: fn.mock gets new arrays. *)
Replaced(snaps, n, node) ==
  [k \in 1..Len(snaps) |->
     IF snaps[k].node = n
     THEN [snaps[k] EXCEPT
             !.calls = IF @.live THEN Detached(node.calls) ELSE @,
             !.results = IF @.live THEN Detached(node.results) ELSE @]
     ELSE snaps[k]]

(* Assigning fn.mock.calls raises a TypeError when fn.mock was overwritten by
   undefined, null or a primitive (the module is strict-mode code). *)
Reconfigure(op, n, node) ==
  /\ stack = <<>>
  /\ n \in Nodes
  /\ IF HasLogs(heap[n])
     THEN /\ heap' = [heap EXCEPT ![n] = node]
          /\ snapshots' = Replaced(snapshots, n, heap[n])
          /\ last' = Last(op, n, "", "return", BaseMock(n))
     ELSE /\ last' = Last(op, n, "", "throw", TypeError)
          /\ UNCHANGED <<heap, snapshots>>
  /\ UNCHANGED <<promises, stack, awaits>>

mockClear(n) == Reconfigure("mockClear", n, ClearLogs(heap[n]))

mockReset(n) == Reconfigure("mockReset", n, ResetRecorder(heap[n]))

(***************************************************************************)
(* Behaviours that use the recorder they are installed on, run at line 39: *)
(*   (...args) => fn.mock.calls.length < MaxCalls ? fn(...args) : undefined*)
(*   () => { fn.mockClear() }          () => { fn.mockReset() }            *)
(***************************************************************************)
ApplyInvokeSelf ==
  /\ stack # <<>>
  /\ Top.pc = "running"
  /\ Top.toCall.b = "invokeSelf"
  /\ LET n == Top.node
     IN IF Len(heap[n].calls) < MaxCalls
        THEN /\ heap' = [heap EXCEPT ![n] = Entered(@, Top.args, TRUE)]
             /\ stack' = Append(SetTop([Top EXCEPT !.pc = "waiting"]),
                                Frame(n, ToCall(heap[n].onceQueue, heap[n].impl), Top.args,
                                      Len(heap[n].calls), Len(heap[n].results)))
             /\ last' = Last("enter", n, "", "none", NoVal)
        ELSE /\ stack' = SetTop(Finish(Top, "return", UNDEF))
             /\ last' = Last("apply", n, "", "none", NoVal)
             /\ UNCHANGED heap
  /\ UNCHANGED <<promises, snapshots, awaits>>

ApplyClearSelf ==
  /\ stack # <<>>
  /\ Top.pc = "running"
  /\ Top.toCall.b = "clearSelf"
  /\ heap' = [heap EXCEPT ![Top.node] = ClearLogs(@)]
  /\ snapshots' = Replaced(snapshots, Top.node, heap[Top.node])
  /\ stack' = SetTop(Finish(Top, "return", UNDEF))
  /\ last' = Last("apply", Top.node, "", "none", NoVal)
  /\ UNCHANGED <<promises, awaits>>

ApplyResetSelf ==
  /\ stack # <<>>
  /\ Top.pc = "running"
  /\ Top.toCall.b = "resetSelf"
  /\ heap' = [heap EXCEPT ![Top.node] = ResetRecorder(@)]
  /\ snapshots' = Replaced(snapshots, Top.node, heap[Top.node])
  /\ stack' = SetTop(Finish(Top, "return", UNDEF))
  /\ last' = Last("apply", Top.node, "", "none", NoVal)
  /\ UNCHANGED <<promises, awaits>>

(* A pending promise a behaviour returned settles later. *)
Settle(i, s) ==
  /\ stack = <<>>
  /\ i \in 1..Len(promises)
  /\ promises[i].state = "pending"
  /\ promises' = [promises EXCEPT ![i].state = s]
  /\ last' = Last("settle", 0, "", "none", NoVal)
  /\ UNCHANGED <<heap, stack, snapshots, awaits>>

(***************************************************************************)
(* createMock, lines 119-197, and the traps of its proxy handler.          *)
(***************************************************************************)
(* A test calls createMock(d). *)
createMock(d) ==
  /\ stack = <<>>
  /\ heap' = createMockHeap(heap, d, 0)
  /\ last' = Last("createMock", d, "", "return", createMockValue(heap, d))
  /\ UNCHANGED <<promises, stack, snapshots, awaits>>

(* The get trap passes the value through: a mock member, or a value that is
   not undefined on the target. *)
PassesThrough(node, p) == p \in MockMemberNames \/ TargetGet(node, p) # UNDEF

(* The get trap returning the nested mock without storing it. *)
CacheNested_notStored(node, p, v) == node

(* The target after the get trap stored the nested mock. *)
CacheNested(node, p, v) == [node EXCEPT !.props = TargetSet(@, p, v)]

Saw(node, p, v) == [node EXCEPT !.seen[p] = v]

(* handler.get, lines 128-161, for a string member name. *)
Get(n, p) ==
  /\ stack = <<>>
  /\ n \in Nodes
  /\ IF PassesThrough(heap[n], p)
     THEN /\ heap' = [heap EXCEPT ![n] = Saw(@, p, TargetGet(heap[n], p))]
          /\ last' = Last("get", n, p, "return", TargetGet(heap[n], p))
     ELSE LET d == heap[n].depth + 1
              nestedMock == createMockValue(heap, d)
          IN /\ heap' = createMockHeap(
                          [heap EXCEPT ![n] = Saw(CacheNested(@, p, nestedMock), p, nestedMock)],
                          d, n)
             /\ last' = Last("get", n, p, "return", nestedMock)
  /\ UNCHANGED <<promises, stack, snapshots, awaits>>

(* handler.set, lines 164-167. Assigning name or length of a function raises
   a TypeError in strict-mode code and stores nothing. *)
Assigned(node, p, v) ==
  [node EXCEPT !.props = TargetSet(@, p, v),
               !.seen[p] = NoVal,
               !.tally = IF p = "mock" THEN -1 ELSE @]

Set(n, p, v) ==
  /\ stack = <<>>
  /\ n \in Nodes
  /\ IF p \in ReadOnlyMembers /\ p \notin DOMAIN heap[n].props
     THEN /\ last' = Last("set", n, p, "throw", TypeError)
          /\ UNCHANGED heap
     ELSE /\ heap' = [heap EXCEPT ![n] = Assigned(@, p, v)]
          /\ last' = Last("set", n, p, "return", v)
  /\ UNCHANGED <<promises, stack, snapshots, awaits>>

(***************************************************************************)
(* Inputs.                                                                 *)
(***************************************************************************)
ArgTuples == {<<Data(1)>>}
ReturnValues == {Data(1)}
Errors == {Err(1)}
ReentrantFunctions == {InvokesSelf, ClearsSelf, ResetsSelf}
WriteValues == {UNDEF, NULL, Data(1)}
DepthInputs == {0, MAX_DEPTH - 1, MAX_DEPTH, MAX_DEPTH + 1}
RecorderNames == {"a"}

Room == Len(heap) < MaxNodes /\ Len(promises) < MaxPromises

CanInvoke(n) == n \in Nodes /\ Len(heap[n].calls) < MaxCalls /\ Room

CanQueue(n) == n \in Nodes /\ Len(heap[n].onceQueue) < MaxQueue

InitRoot ==
  /\ heap = <<createBaseMock(1, 0, 0)>>
  /\ promises = <<>>
  /\ stack = <<>>
  /\ last = Last("createMock", 0, "", "return", StandIn(1))
  /\ snapshots = <<>>
  /\ awaits = <<>>

(***************************************************************************)
(* SpecRecorder: the recorder of the stand-in createMock() returns, with   *)
(* behaviours that return a value, generate a stand-in or throw.           *)
(***************************************************************************)
NextRecorder ==
  \/ \E a \in ArgTuples : CanInvoke(1) /\ Invoke(1, a)
  \/ Apply
  \/ Return
  \/ \E e \in Errors : mockImplementation(1, Throws(e))
  \/ \E e \in Errors : CanQueue(1) /\ mockImplementationOnce(1, Throws(e))
  \/ \E v \in ReturnValues : mockReturnValue(1, v)
  \/ \E v \in ReturnValues : CanQueue(1) /\ mockReturnValueOnce(1, v)
  \/ mockClear(1)
  \/ mockReset(1)
  \/ \E p \in RecorderNames : Get(1, p) /\ Len(heap') <= MaxNodes
  \/ \E p \in RecorderNames \cup {"mock"} : \E v \in {Data(1)} : Set(1, p, v)

SpecRecorder == InitRoot /\ [][NextRecorder]_vars

(***************************************************************************)
(* SpecAsync: the same recorder with behaviours that return promises       *)
(* (fulfilled, rejected, or pending and settled later) or throw.           *)
(***************************************************************************)
NextAsync ==
  \/ \E a \in ArgTuples : CanInvoke(1) /\ Invoke(1, a)
  \/ Apply
  \/ Return
  \/ \E f \in {Throws(Err(1)), ReturnsPending} : mockImplementation(1, f)
  \/ \E f \in {Throws(Err(1))} : CanQueue(1) /\ mockImplementationOnce(1, f)
  \/ \E v \in ReturnValues : mockResolvedValue(1, v)
  \/ \E v \in ReturnValues : CanQueue(1) /\ mockResolvedValueOnce(1, v)
  \/ \E e \in Errors : mockRejectedValue(1, e)
  \/ \E e \in Errors : CanQueue(1) /\ mockRejectedValueOnce(1, e)
  \/ \E s \in {"fulfilled", "rejected"} : \E i \in 1..Len(promises) : Settle(i, s)

SpecAsync == InitRoot /\ [][NextAsync]_vars

(***************************************************************************)
(* SpecReentrant: the same recorder with behaviours that invoke, clear or  *)
(* reset the recorder they run on.                                         *)
(***************************************************************************)
NextReentrant ==
  \/ \E a \in ArgTuples : CanInvoke(1) /\ Invoke(1, a)
  \/ Apply
  \/ ApplyInvokeSelf
  \/ ApplyClearSelf
  \/ ApplyResetSelf
  \/ Return
  \/ \E f \in ReentrantFunctions : mockImplementation(1, f)
  \/ \E f \in {InvokesSelf, Throws(Err(1))} : CanQueue(1) /\ mockImplementationOnce(1, f)
  \/ \E v \in ReturnValues : mockReturnValue(1, v)
  \/ \E v \in ReturnValues : CanQueue(1) /\ mockReturnValueOnce(1, v)
  \/ mockClear(1)
  \/ mockReset(1)

SpecReentrant == InitRoot /\ [][NextReentrant]_vars

(***************************************************************************)
(* SpecStandIn: a stand-in at depth 0 or MAX_DEPTH, its members read and   *)
(* assigned, with invocations and configuration in between.                *)
(***************************************************************************)
InitStandIn ==
  /\ \E d \in {0, MAX_DEPTH} :
        /\ heap = <<createBaseMock(1, d, 0)>>
        /\ last = Last("createMock", d, "", "return", StandIn(1))
  /\ promises = <<>>
  /\ stack = <<>>
  /\ snapshots = <<>>
  /\ awaits = <<>>

NextStandIn ==
  \/ \E p \in AllNames : Get(1, p) /\ Len(heap') <= MaxStandIns
  \/ \E p \in AllNames : \E v \in WriteValues : Set(1, p, v)
  \/ \E a \in ArgTuples :
        Len(heap[1].calls) < MaxStandInCalls /\ Len(heap) < MaxStandIns /\ Invoke(1, a)
  \/ Apply
  \/ Return
  \/ \E v \in ReturnValues : mockReturnValue(1, v)
  \/ mockClear(1)
  \/ mockReset(1)

SpecStandIn == InitStandIn /\ [][NextStandIn]_vars

(***************************************************************************)
(* SpecChain: one createMock(d), then member reads and invocations of the  *)
(* value the step before returned, as far as the chain goes.               *)
(***************************************************************************)
InitEmpty ==
  /\ heap = <<>>
  /\ promises = <<>>
  /\ stack = <<>>
  /\ last = Last("load", 0, "", "none", NoVal)
  /\ snapshots = <<>>
  /\ awaits = <<>>

Tip == Len(heap)

NextChain ==
  \/ \E d \in DepthInputs : heap = <<>> /\ createMock(d)
  \/ \E p \in {"a"} : Tip > 0 /\ Get(Tip, p)
  \/ \E a \in ArgTuples : Tip > 0 /\ Len(heap[Tip].calls) < MaxStandInCalls /\ Invoke(Tip, a)
  \/ Apply
  \/ Return

SpecChain == InitEmpty /\ [][NextChain]_vars

(***************************************************************************)
(* getCallInfo, lines 279-287, of a value that passed isMock.              *)
(***************************************************************************)
(* lastCall read at index length instead of length - 1: always the default. *)
getCallInfo_noLastCall(node) ==
  [callCount |-> Len(node.calls),
   calls |-> node.calls,
   results |-> node.results,
   lastCall |-> <<>>,
   lastResult |-> IF node.results = <<>> THEN [type |-> "return", value |-> UNDEF]
                  ELSE node.results[Len(node.results)]]

getCallInfo(node) ==
  [callCount |-> Len(node.calls),
   calls |-> node.calls,
   results |-> node.results,
   lastCall |-> IF node.calls = <<>> THEN <<>> ELSE node.calls[Len(node.calls)],
   lastResult |-> IF node.results = <<>> THEN [type |-> "return", value |-> UNDEF]
                  ELSE node.results[Len(node.results)]]

(***************************************************************************)
(* isMock, lines 215-217. Data values are primitives (numbers, strings);   *)
(* Err values are Error objects.                                           *)
(***************************************************************************)
Bool(b) == [k |-> "boolean", v |-> IF b THEN 1 ELSE 0]

Outcome(t, v) == [type |-> t, value |-> v]

(* typeof value === 'function': a stand-in (the proxy of a function), fn
   itself, a method of fn, a function of the test, and what a function
   carries by itself (of which name and length are no functions; none of
   them has a mock member, so isMock is false of them either way). *)
IsFunction(v) == v.k \in {"standin", "basemock", "method", "builtin", "function"}

(* typeof value === 'object', which holds of null too. *)
IsObject(v) == v.k \in {"null", "mockobj", "promise", "error", "snapshot"}

(* 'mock' in value: an own property of fn; the proxy has no `has` trap and
   answers for fn. *)
HasMockMember(v, h) ==
  /\ v.k \in {"standin", "basemock"}
  /\ v.v \in 1..Len(h)
  /\ "mock" \in DOMAIN h[v.v].props

(* value.mock: the get trap passes `mock` through to fn. *)
MockMember(v, h) == TargetGet(h[v.v], "mock")

(* Array.isArray of whatever object the mock member is. *)
HasArrays_anyObject(m) == TRUE

(* Array.isArray(m.calls) && Array.isArray(m.results) of an object m that is
   not null: the object createBaseMock assigned holds two arrays, mockClear
   assigns arrays again; an Error or a promise has neither property. *)
HasArrays(m) == m.k = "mockobj"

(* The conjunction of line 216, left to right; null.calls raises. *)
isMock(v, h) ==
  IF ~IsFunction(v) \/ ~HasMockMember(v, h)
  THEN Outcome("return", Bool(FALSE))
  ELSE LET m == MockMember(v, h)
       IN IF ~IsObject(m) THEN Outcome("return", Bool(FALSE))
          ELSE IF m = NULL THEN Outcome("throw", TypeError)
          ELSE Outcome("return", Bool(HasArrays(m)))

(* The argument of isMock and getCallInfo is kept in `last` by its parts. *)
Arg(l) == [k |-> l.name, v |-> l.node]

(* A test calls isMock(v). *)
IsMock(v) ==
  /\ stack = <<>>
  /\ last' = Last("isMock", v.v, v.k, isMock(v, heap).type, isMock(v, heap).value)
  /\ UNCHANGED <<heap, promises, stack, snapshots, awaits>>

(***************************************************************************)
(* getCallInfo, lines 274-288, called by a test.                           *)
(***************************************************************************)
SnapshotRef(i) == [k |-> "snapshot", v |-> i]

(* Any function with a mock member passing for a mock. *)
Recognized_anyFunction(v, h) == IsFunction(v) /\ HasMockMember(v, h)

(* Line 275: isMock(mockFn) gave true. *)
Recognized(v, h) == isMock(v, h) = Outcome("return", Bool(TRUE))

(* Lines 279-287: the count, the last call and the last result as they are
   now, and the two arrays of fn.mock themselves. *)
Snapshot(n, node) ==
  [node |-> n,
   callCount |-> getCallInfo(node).callCount,
   calls |-> Live,
   results |-> Live,
   lastCall |-> getCallInfo(node).lastCall,
   lastResult |-> getCallInfo(node).lastResult]

(* What the holder of an array reads in it. *)
Items(array, current) == IF array.live THEN current ELSE array.items

GetCallInfo(v) ==
  /\ stack = <<>>
  /\ IF isMock(v, heap).type = "throw" \/ ~Recognized(v, heap)
     THEN /\ last' = Last("getCallInfo", v.v, v.k, "throw", TypeError)
          /\ UNCHANGED snapshots
     ELSE /\ Len(snapshots) < MaxSnapshots
          /\ snapshots' = Append(snapshots, Snapshot(v.v, heap[v.v]))
          /\ last' = Last("getCallInfo", v.v, v.k, "return", SnapshotRef(Len(snapshots) + 1))
  /\ UNCHANGED <<heap, promises, stack, awaits>>

(***************************************************************************)
(* Listing the members of a stand-in, Object.keys(standIn): the ownKeys    *)
(* trap, lines 170-172, and what the proxy does with its result.           *)
(***************************************************************************)
(* Own properties of a function that are not enumerable; prototype is not
   configurable either (fn is a function expression, not an arrow). *)
NonEnumerable == {"prototype", "name", "length"}

NonConfigurable == {"prototype"}

(* Object.keys(target): the members createBaseMock assigned on fn and every
   member the get and set traps stored since. *)
ownKeys(node) == DOMAIN node.props \ NonEnumerable

KeyList(names) == [k |-> "keys", v |-> names]

(* A proxy raises a TypeError when the result of its ownKeys trap leaves out
   a non-configurable own key of the target. *)
ObjectKeys(n) ==
  /\ stack = <<>>
  /\ n \in Nodes
  /\ IF NonConfigurable \subseteq ownKeys(heap[n])
     THEN last' = Last("ownKeys", n, "", "return", KeyList(ownKeys(heap[n])))
     ELSE last' = Last("ownKeys", n, "", "throw", TypeError)
  /\ UNCHANGED <<heap, promises, stack, snapshots, awaits>>

(* A member read on fn itself, the value the configuration methods return:
   no trap runs, nothing is generated or stored. *)
GetOwn(n, p) ==
  /\ stack = <<>>
  /\ n \in Nodes
  /\ last' = Last("getOwn", n, p, "return", TargetGet(heap[n], p))
  /\ UNCHANGED <<heap, promises, stack, snapshots, awaits>>

(***************************************************************************)
(* SpecPredicate: isMock applied to what a test can hold of a stand-in     *)
(* whose members are read and assigned, invoked and configured; the        *)
(* members listed; members read on what a configuration method returned.   *)
(***************************************************************************)
TestValues(h) ==
  {StandIn(n) : n \in 1..Len(h)} \cup {BaseMock(n) : n \in 1..Len(h)}
    \cup {UNDEF, NULL, Data(1), Method(1), FnBuiltin(0), MockObj(1)}

MockWrites == {NULL, Data(1), Err(1)}

NextPredicate ==
  \/ \E p \in RecorderNames : Get(1, p) /\ Len(heap') <= MaxNodes
  \/ \E p \in RecorderNames \cup {"mock"} : \E v \in MockWrites : Set(1, p, v)
  \/ \E a \in ArgTuples :
        Len(heap[1].calls) < MaxStandInCalls /\ Len(heap) < MaxNodes /\ Invoke(1, a)
  \/ Apply
  \/ Return
  \/ \E v \in ReturnValues : mockReturnValue(1, v)
  \/ mockClear(1)
  \/ \E v \in TestValues(heap) : IsMock(v)
  \/ ObjectKeys(1)
  \/ \E p \in RecorderNames \cup {"mock"} : GetOwn(1, p)

SpecPredicate == InitRoot /\ [][NextPredicate]_vars

(***************************************************************************)
(* SpecInspect: getCallInfo applied to what a test can hold, between       *)
(* invocations, clears and resets of the recorders.                        *)
(***************************************************************************)
InspectValues(h) ==
  {StandIn(n) : n \in 1..Len(h)} \cup {BaseMock(1), UNDEF, Data(1), Method(1)}

NextInspect ==
  \/ \E p \in RecorderNames : Get(1, p) /\ Len(heap') <= MaxNodes
  \/ Set(1, "mock", Data(1))
  \/ \E n \in Nodes : \E a \in ArgTuples :
        Len(heap[n].calls) < MaxStandInCalls /\ Len(heap) < MaxNodes /\ Invoke(n, a)
  \/ Apply
  \/ Return
  \/ mockClear(1)
  \/ mockReset(1)
  \/ \E v \in InspectValues(heap) : GetCallInfo(v)

SpecInspect == InitRoot /\ [][NextInspect]_vars

(***************************************************************************)
(* createMockWithDefaults, lines 243-262. The traps are taken as functions *)
(* of the heap here, since one call runs them once per entry.              *)
(***************************************************************************)
(* A function a test wrote, and what it does when called. *)
UserFn(i) == [k |-> "function", v |-> i]

UserFunctions == <<ReturnsValue(Data(1))>>

(* mockObj[key], lines 128-161: the heap after the read and the value read. *)
handlerGet(h, n, p) ==
  IF PassesThrough(h[n], p)
  THEN [heap |-> [h EXCEPT ![n] = Saw(@, p, TargetGet(h[n], p))],
        value |-> TargetGet(h[n], p)]
  ELSE LET d == h[n].depth + 1
           nestedMock == createMockValue(h, d)
       IN [heap |-> createMockHeap(
                      [h EXCEPT ![n] = Saw(CacheNested(@, p, nestedMock), p, nestedMock)],
                      d, n),
           value |-> nestedMock]

(* mockObj[key] = value, lines 164-167. *)
handlerSet(h, n, p, v) ==
  IF p \in ReadOnlyMembers /\ p \notin DOMAIN h[n].props
  THEN [heap |-> h, type |-> "throw"]
  ELSE [heap |-> [h EXCEPT ![n] = Assigned(@, p, v)], type |-> "return"]

(* Lines 250-257, one entry: a function is installed on the member when the
   member is a mock and dropped when it is not; anything else is assigned. *)
installDefault(h, root, e) ==
  IF IsFunction(e.value)
  THEN LET got == handlerGet(h, root, e.key)
           mockProp == got.value
       IN IF isMock(mockProp, got.heap).type = "throw"
          THEN [heap |-> got.heap, type |-> "throw"]
          ELSE IF isMock(mockProp, got.heap).value = Bool(TRUE)
          THEN [heap |-> [got.heap EXCEPT
                            ![mockProp.v] = SetImpl(@, UserFunctions[e.value.v])],
                type |-> "return"]
          ELSE [heap |-> got.heap, type |-> "return"]
  ELSE handlerSet(h, root, e.key, e.value)

(* Line 249: forEach over the entries; an entry that raises ends the loop. *)
RECURSIVE installDefaults(_, _, _)
installDefaults(h, root, entries) ==
  IF entries = <<>> THEN [heap |-> h, type |-> "return"]
  ELSE LET first == installDefault(h, root, Head(entries))
       IN IF first.type = "throw" THEN first
          ELSE installDefaults(first.heap, root, Tail(entries))

(* A test calls createMockWithDefaults(defaults); no defaults is <<>>. *)
createMockWithDefaults(defaults) ==
  /\ stack = <<>>
  /\ LET root == Len(heap) + 1
         done == installDefaults(createMockHeap(heap, 0, 0), root, defaults)
     IN /\ heap' = done.heap
        /\ last' = IF done.type = "throw"
                   THEN Last("createMockWithDefaults", root, "", "throw", TypeError)
                   ELSE Last("createMockWithDefaults", root, "", "return", StandIn(root))
  /\ UNCHANGED <<promises, stack, snapshots, awaits>>

(***************************************************************************)
(* SpecDefaults: one createMockWithDefaults(defaults), then member reads,  *)
(* invocations and getCallInfo on what it built.                           *)
(***************************************************************************)
DefaultKeys == {"a", "name", "mock"}

DefaultValues == {UserFn(1), Data(1), UNDEF}

Entry(key, value) == [key |-> key, value |-> value]

Entries == {Entry(key, value) : key \in DefaultKeys, value \in DefaultValues}

(* The entries of an object literal: every key once. *)
DefaultsInputs ==
  {d \in UNION {[1..m -> Entries] : m \in 0..MaxDefaults} :
     \A i, j \in 1..Len(d) : d[i].key = d[j].key => i = j}

NextDefaults ==
  \/ \E d \in DefaultsInputs : heap = <<>> /\ createMockWithDefaults(d)
  \/ \E p \in {"a", "name"} : heap # <<>> /\ Get(1, p) /\ Len(heap') <= MaxNodes
  \/ \E n \in Nodes : \E a \in ArgTuples :
        Len(heap[n].calls) < MaxStandInCalls /\ Len(heap) < MaxNodes /\ Invoke(n, a)
  \/ Apply
  \/ Return
  \/ \E n \in Nodes : GetCallInfo(StandIn(n))

SpecDefaults == InitEmpty /\ [][NextDefaults]_vars

(***************************************************************************)
(* `await v` in an async test function, as the host runs it on a value     *)
(* that is no native promise: a promise is made and resolved with v; when  *)
(* v is an object its member `then` is read, and when that is a function a *)
(* job is queued that calls v.then(resolve, reject) and the promise stays  *)
(* pending until one of the two is called; otherwise the promise is        *)
(* fulfilled with v. The function resumes once the promise is settled.     *)
(* The read of `then` is the get trap, lines 128-161; the call is fn,      *)
(* lines 33-46, running the default behaviour of line 193.                 *)
(***************************************************************************)
ResolveFn(i) == [k |-> "resolve", v |-> i]

RejectFn(i) == [k |-> "reject", v |-> i]

Awaiting(i, t, pc) == [promise |-> i, then |-> t, pc |-> pc]

(* The async function is not suspended at an await. *)
Running == \A k \in 1..Len(awaits) : awaits[k].pc = "resumed"

Await(v) ==
  /\ stack = <<>>
  /\ Running
  /\ v.k \in {"standin", "undefined", "data"}
  /\ LET i == Len(promises) + 1
         got == IF v.k = "standin" THEN handlerGet(heap, v.v, "then")
                ELSE [heap |-> heap, value |-> UNDEF]
     IN /\ heap' = got.heap
        /\ IF IsFunction(got.value)
           THEN /\ promises' = Append(promises, [state |-> "pending", value |-> UNDEF])
                /\ awaits' = Append(awaits, Awaiting(i, got.value, "job"))
           ELSE /\ promises' = Append(promises, [state |-> "fulfilled", value |-> v])
                /\ awaits' = Append(awaits, Awaiting(i, got.value, "ready"))
  /\ last' = Last("await", v.v, v.k, "none", NoVal)
  /\ UNCHANGED <<stack, snapshots>>

(* The queued job: then.call(v, resolve, reject). What the call returns is
   dropped; a call that raises rejects the promise. *)
ThenableJob(k) ==
  /\ stack = <<>>
  /\ k \in 1..Len(awaits)
  /\ awaits[k].pc = "job"
  /\ LET n == awaits[k].then.v
         i == awaits[k].promise
         a == <<ResolveFn(i), RejectFn(i)>>
     IN IF HasLogs(heap[n])
        THEN /\ heap' = [heap EXCEPT ![n] = Entered(@, a, FALSE)]
             /\ stack' = <<Frame(n, ToCall(heap[n].onceQueue, heap[n].impl), a,
                                 Len(heap[n].calls), Len(heap[n].results))>>
             /\ awaits' = [awaits EXCEPT ![k].pc = "suspended"]
             /\ last' = Last("enter", n, "", "none", NoVal)
             /\ UNCHANGED promises
        ELSE /\ promises' = [promises EXCEPT ![i] = [state |-> "rejected", value |-> TypeError]]
             /\ awaits' = [awaits EXCEPT ![k].pc = "ready"]
             /\ last' = Last("call", n, "", "throw", TypeError)
             /\ UNCHANGED <<heap, stack>>
  /\ UNCHANGED snapshots

(* The promise is settled: the function goes on after the await. *)
Resume(k) ==
  /\ stack = <<>>
  /\ k \in 1..Len(awaits)
  /\ awaits[k].pc = "ready"
  /\ promises[awaits[k].promise].state # "pending"
  /\ awaits' = [awaits EXCEPT ![k].pc = "resumed"]
  /\ last' = Last("resume", k, "", "none", NoVal)
  /\ UNCHANGED <<heap, promises, stack, snapshots>>

(***************************************************************************)
(* SpecAwait: an async test function that creates a stand-in, reads        *)
(* members and invokes down the chain, and awaits what an invocation       *)
(* returned. The host runs every job it has queued and every call to its   *)
(* end; the test function may stop anywhere.                               *)
(***************************************************************************)
HostStep ==
  \/ Apply
  \/ Return
  \/ \E k \in 1..Len(awaits) : ThenableJob(k)
  \/ \E k \in 1..Len(awaits) : Resume(k)

NextAwait ==
  \/ \E d \in DepthInputs : heap = <<>> /\ createMock(d)
  \/ \E p \in RecorderNames : Tip > 0 /\ Running /\ Get(Tip, p)
  \/ \E a \in ArgTuples :
        Tip > 0 /\ Running /\ Len(heap[Tip].calls) < MaxStandInCalls /\ Invoke(Tip, a)
  \/ Apply
  \/ Return
  \/ last.op = "call" /\ last.type = "return" /\ Len(awaits) < MaxAwaits /\ Await(last.value)
  \/ \E k \in 1..Len(awaits) : ThenableJob(k)
  \/ \E k \in 1..Len(awaits) : Resume(k)

SpecAwait == InitEmpty /\ [][NextAwait]_vars /\ WF_vars(HostStep)

(***************************************************************************)
(* Steps, told apart by what they do to the stack and by `last`.           *)
(***************************************************************************)
Entering == Len(stack') = Len(stack) + 1

Returning == Len(stack') = Len(stack) - 1

Applying == /\ Len(stack') = Len(stack)
            /\ stack # <<>>
            /\ Top.pc = "running"
            /\ stack'[Len(stack')].pc = "done"

Did(op, n) == vars' # vars /\ last'.op = op /\ last'.node = n

(***************************************************************************)
(* C1. After the k-th of a sequence of top-level invocations of a stand-in *)
(* (behaviours that return or throw and leave the recorder alone, no       *)
(* Clear/Reset, the bookkeeping member not overwritten) getCallInfo        *)
(* reports callCount = k and both logs have length k.                      *)
(***************************************************************************)
C1_CountsMatchInvocations ==
  \A n \in Nodes :
    (stack = <<>> /\ heap[n].tally >= 0) =>
      /\ HasLogs(heap[n])
      /\ getCallInfo(heap[n]).callCount = heap[n].tally
      /\ Len(getCallInfo(heap[n]).calls) = heap[n].tally
      /\ Len(getCallInfo(heap[n]).results) = heap[n].tally

C1_Witness ==
  /\ stack = <<>>
  /\ heap # <<>>
  /\ heap[1].tally = 3
  /\ heap[1].results[1].type = "throw"
  /\ heap[1].results[2].value = Data(1)
  /\ heap[1].results[3].value.k = "standin"

(***************************************************************************)
(* C2. One-shot behaviours are consumed first in, first out, one per       *)
(* invocation: an invocation runs the head of the once-queue and removes   *)
(* exactly it, or the persistent behaviour when the queue is empty;        *)
(* queueing appends at the end and setting the persistent behaviour leaves *)
(* the queue alone; the caller gets the value of the behaviour that ran.   *)
(***************************************************************************)
C2_FifoOnce ==
  [][\A n \in Nodes :
       /\ (Entering /\ stack'[Len(stack')].node = n) =>
            LET q == heap[n].onceQueue
                f == stack'[Len(stack')].toCall
            IN IF q # <<>>
               THEN f = q[1] /\ heap'[n].onceQueue = SubSeq(q, 2, Len(q))
               ELSE f = heap[n].impl /\ heap'[n].onceQueue = <<>>
       /\ Did("mockImplementationOnce", n) =>
            /\ Len(heap'[n].onceQueue) = Len(heap[n].onceQueue) + 1
            /\ SubSeq(heap'[n].onceQueue, 1, Len(heap[n].onceQueue)) = heap[n].onceQueue
            /\ heap'[n].impl = heap[n].impl
       /\ Did("mockImplementation", n) => heap'[n].onceQueue = heap[n].onceQueue
       /\ (Returning /\ Top.node = n /\ Top.toCall.b = "returnValue") =>
            last'.type = "return" /\ last'.value = Top.toCall.v
       /\ (Returning /\ Top.node = n /\ Top.toCall.b = "throws") =>
            last'.type = "throw" /\ last'.value = Top.toCall.v
    ]_vars

C2_Witness ==
  /\ stack = <<>>
  /\ last.op = "call"
  /\ heap[1].tally = 3
  /\ heap[1].impl = DefaultImpl
  /\ heap[1].results[1] = [type |-> "return", value |-> Data(1)]
  /\ heap[1].results[2] = [type |-> "throw", value |-> Err(1)]
  /\ heap[1].results[3].value.k = "standin"

(***************************************************************************)
(* C3. The outcome kind is decided by whether the behaviour raises: a      *)
(* behaviour that throws e gives one {throw, e} entry and e re-raised; any *)
(* other gives one {return, r} entry and r returned, also when r is a      *)
(* promise that is rejected or pending; a later settlement of the promise  *)
(* leaves both logs as they are.                                           *)
(***************************************************************************)
C3_OutcomeKind ==
  [][/\ Applying =>
          LET f == Top.toCall
              fr == stack'[Len(stack')]
          IN /\ f.b = "throws" => fr.type = "throw" /\ fr.value = f.v
             /\ f.b # "throws" => fr.type = "return"
             /\ f.b \in {"resolvedValue", "rejectedValue", "pendingPromise"} =>
                  /\ fr.value.k = "promise"
                  /\ fr.value.v = Len(promises')
                  /\ promises'[fr.value.v].state =
                       (CASE f.b = "resolvedValue" -> "fulfilled"
                          [] f.b = "rejectedValue" -> "rejected"
                          [] OTHER -> "pending")
                  /\ f.b # "pendingPromise" => promises'[fr.value.v].value = f.v
     /\ Returning =>
          LET n == Top.node
          IN /\ heap'[n].results =
                  Append(heap[n].results, [type |-> Top.type, value |-> Top.value])
             /\ heap'[n].calls = heap[n].calls
             /\ Len(stack) = 1 => last'.type = Top.type /\ last'.value = Top.value
     /\ (promises' # promises /\ Len(promises') = Len(promises)) => heap' = heap
    ]_vars

C3_Witness ==
  /\ stack = <<>>
  /\ last.op = "settle"
  /\ Len(promises) = 2
  /\ promises[1].state = "rejected" /\ promises[1].value = Err(1)
  /\ promises[2].state = "rejected" /\ promises[2].value = UNDEF
  /\ Len(heap[1].results) = 3
  /\ heap[1].results[1] = [type |-> "return", value |-> PromiseRef(1)]
  /\ heap[1].results[2] = [type |-> "throw", value |-> Err(1)]
  /\ heap[1].results[3] = [type |-> "return", value |-> PromiseRef(2)]

(***************************************************************************)
(* C4. On a node of depth d <= MAX_DEPTH, the first read of any string     *)
(* member name that is not a mock member name, and that was neither read   *)
(* nor assigned before, synthesizes createMock(d + 1), stores it under     *)
(* that name and returns it; the names a function carries by itself (name, *)
(* length, call, bind, ...) included.                                      *)
(***************************************************************************)
Untouched(node, p) == node.seen[p] = NoVal /\ p \notin DOMAIN node.props

C4_FirstReadGenerates ==
  [][\A n \in Nodes : \A p \in AllNames \ MockMemberNames :
       (Did("get", n) /\ last'.name = p /\ Untouched(heap[n], p)
          /\ heap[n].depth <= MAX_DEPTH) =>
         /\ last'.value = createMockValue(heap, heap[n].depth + 1)
         /\ p \in DOMAIN heap'[n].props
         /\ heap'[n].props[p] = last'.value
    ]_vars

(***************************************************************************)
(* C5. Two reads of the same member of the same node with no assignment to *)
(* that member in between return the identical value, whatever             *)
(* invocations, configuration, clears, resets, and reads and assignments   *)
(* of other members happen in between.                                     *)
(***************************************************************************)
C5_StableReads ==
  [][\A n \in Nodes : \A p \in AllNames :
       (last'.op = "get" /\ last'.node = n /\ last'.name = p
          /\ heap[n].seen[p] # NoVal) =>
         last'.value = heap[n].seen[p]
    ]_vars

C5_Witness ==
  /\ stack = <<>>
  /\ last.op = "get" /\ last.node = 1 /\ last.name = "a"
  /\ last.value = StandIn(2)
  /\ heap[1].seen["a"] = StandIn(2)
  /\ heap[1].tally = -1
  /\ heap[1].impl = DefaultImpl
  /\ heap[1].calls = <<>>
  /\ ~HasLogs(heap[1])

(***************************************************************************)
(* C6. A member assignment stores unconditionally: a read of the member    *)
(* right after the assignment returns exactly the assigned value, whatever *)
(* the value (undefined included), and generates no stand-in.              *)
(***************************************************************************)
C6_ReadYieldsWritten ==
  [][(last.op = "set" /\ last.type = "return"
        /\ last'.op = "get" /\ last'.node = last.node /\ last'.name = last.name) =>
       /\ last'.value = last.value
       /\ Len(heap') = Len(heap)
    ]_vars

Generated(h, h2, d, v) ==
  IF d > MAX_DEPTH
  THEN v = UNDEF /\ Len(h2) = Len(h)
  ELSE /\ v = StandIn(Len(h) + 1)
       /\ Len(h2) = Len(h) + 1
       /\ h2[Len(h2)].depth = d

C8_DepthGuard ==
  [][/\ \A n \in 1..Len(heap') :
          /\ heap'[n].depth <= MAX_DEPTH
          /\ heap'[n].parent = n - 1
          /\ heap'[n].depth = heap'[1].depth + (n - 1)
     /\ Len(heap') <= Len(heap) + 1
     /\ (vars' # vars /\ last'.op = "createMock") =>
          Generated(heap, heap', last'.node, last'.value)
     /\ \A n \in Nodes :
          (Did("get", n) /\ ~PassesThrough(heap[n], last'.name)) =>
            /\ last'.type = "return"
            /\ Generated(heap, heap', n - 1 + heap[1].depth + 1, last'.value)
     /\ (Applying /\ Top.toCall = DefaultImpl) =>
          /\ stack'[Len(stack')].type = "return"
          /\ Generated(heap, heap', Top.node - 1 + heap[1].depth + 1,
                       stack'[Len(stack')].value)
    ]_vars

C8_Witness ==
  /\ stack = <<>>
  /\ Len(heap) = MAX_DEPTH + 1
  /\ heap[1].depth = 0
  /\ heap[MAX_DEPTH + 1].depth = MAX_DEPTH
  /\ last.op = "call" /\ last.node = MAX_DEPTH + 1
  /\ last.type = "return" /\ last.value = UNDEF
  /\ "a" \in DOMAIN heap[MAX_DEPTH + 1].props
  /\ heap[MAX_DEPTH + 1].props["a"] = UNDEF

(***************************************************************************)
(* C9. Whenever an invocation of a recorder has just completed (returned   *)
(* or raised), its call log and its outcome log have the same length, also *)
(* when the behaviour invoked, cleared or reset the recorder it runs on.   *)
(***************************************************************************)
C9_LogsAligned ==
  [][Returning =>
       Len(heap'[Top.node].calls) = Len(heap'[Top.node].results)
    ]_vars

C12_IsMockTotal ==
  last.op = "isMock" => (last.type = "return" /\ last.value.k = "boolean")

(***************************************************************************)
(* C13. For a recorder with call log C and outcome log R, getCallInfo      *)
(* returns callCount = Len(C), calls = C, results = R, lastCall = the last *)
(* element of C (the empty tuple when C is empty), lastResult = the last   *)
(* element of R ({return, undefined} when R is empty) and changes nothing  *)
(* of the recorders.                                                       *)
(***************************************************************************)
C13_SnapshotOfLogs ==
  [][\A n \in Nodes :
       (Did("getCallInfo", n) /\ last'.type = "return") =>
         LET s == snapshots'[last'.value.v]
             C == heap[n].calls
             R == heap[n].results
         IN /\ s.node = n
            /\ s.callCount = Len(C)
            /\ Items(s.calls, heap'[n].calls) = C
            /\ Items(s.results, heap'[n].results) = R
            /\ s.lastCall = IF Len(C) = 0 THEN <<>> ELSE C[Len(C)]
            /\ s.lastResult = IF Len(R) = 0 THEN [type |-> "return", value |-> UNDEF]
                              ELSE R[Len(R)]
            /\ heap' = heap /\ promises' = promises /\ stack' = stack
    ]_vars

(* standIn.a("1") returned a stand-in; getCallInfo(standIn.a) reports it. *)
C13_Witness ==
  /\ last.op = "getCallInfo" /\ Arg(last) = StandIn(2) /\ last.type = "return"
  /\ Len(heap) = 3 /\ Len(snapshots) = 1
  /\ heap[2].parent = 1
  /\ "a" \in DOMAIN heap[1].props /\ heap[1].props["a"] = StandIn(2)
  /\ heap[2].results = <<[type |-> "return", value |-> StandIn(3)]>>
  /\ snapshots[1].callCount = 1
  /\ snapshots[1].lastCall = <<Data(1)>>
  /\ snapshots[1].lastResult = [type |-> "return", value |-> StandIn(3)]

(***************************************************************************)
(* C14. getCallInfo(v) raises a TypeError, at once and changing nothing,   *)
(* for every v of which isMock is false (plain data, the undefined of the  *)
(* depth guard, functions without bookkeeping, stand-ins whose `mock`      *)
(* member was replaced by plain data) and raises for no v of which isMock  *)
(* is true.                                                                *)
(***************************************************************************)
C14_RaisesIffNotMock ==
  [][\A v \in InspectValues(heap) :
       (vars' # vars /\ last'.op = "getCallInfo" /\ Arg(last') = v) =>
         /\ isMock(v, heap) = Outcome("return", Bool(FALSE)) =>
              /\ last'.type = "throw" /\ last'.value = TypeError
              /\ heap' = heap /\ snapshots' = snapshots
              /\ promises' = promises /\ stack' = stack
         /\ isMock(v, heap) = Outcome("return", Bool(TRUE)) =>
              /\ last'.type = "return"
              /\ last'.value = SnapshotRef(Len(snapshots'))
    ]_vars

C14_Witness ==
  /\ last.op = "getCallInfo" /\ Arg(last) = StandIn(1)
  /\ last.type = "throw" /\ last.value = TypeError
  /\ heap[1].props["mock"] = Data(1)
  /\ Len(heap[1].calls) = 1
  /\ Len(snapshots) = 1 /\ snapshots[1].node = 1

(***************************************************************************)
(* C17. Listing the members of a node does not raise and yields exactly    *)
(* the names stored on it by member reads and writes: none of the names    *)
(* createBaseMock assigns (mock, the behaviour setters, mockClear,         *)
(* mockReset), nothing for a fresh node.                                   *)
(***************************************************************************)
ChildNames(node) == DOMAIN node.props \ BaseMockMembers

C17_ListsChildCache ==
  [][\A n \in Nodes :
       Did("ownKeys", n) =>
         /\ last'.type = "return"
         /\ ownKeys(heap[n]) = ChildNames(heap[n])
    ]_vars

(***************************************************************************)
(* C19. Every configuration method called on a stand-in returns that       *)
(* stand-in, so that a member read on the returned value generates a child *)
(* and stores it on the node.                                              *)
(***************************************************************************)
ConfigurationOps == {"mockImplementation", "mockImplementationOnce", "mockClear", "mockReset"}

C19_ReturnsReceiver ==
  [][\A n \in Nodes :
       /\ (vars' # vars /\ last'.op \in ConfigurationOps /\ last'.node = n
             /\ last'.type = "return") =>
            last'.value = StandIn(n)
       /\ (Did("getOwn", n) /\ last'.name \notin MockMemberNames) =>
            /\ last'.value # UNDEF
            /\ last'.name \in DOMAIN heap'[n].props
    ]_vars

(***************************************************************************)
(* C20. A snapshot getCallInfo returned describes one state of the logs:   *)
(* in it callCount = Len(calls) = Len(results), lastCall is the last       *)
(* element of calls and lastResult the last element of results (or the     *)
(* defaults when empty), also after later invocations, clears and resets.  *)
(***************************************************************************)
C20_SnapshotConsistent ==
  \A k \in 1..Len(snapshots) :
    LET s == snapshots[k]
        C == Items(s.calls, heap[s.node].calls)
        R == Items(s.results, heap[s.node].results)
    IN /\ s.callCount = Len(C)
       /\ s.callCount = Len(R)
       /\ s.lastCall = IF Len(C) = 0 THEN <<>> ELSE C[Len(C)]
       /\ s.lastResult = IF Len(R) = 0 THEN [type |-> "return", value |-> UNDEF]
                         ELSE R[Len(R)]

(***************************************************************************)
(* C15. createMockWithDefaults(defaults) returns a fresh root stand-in on  *)
(* which, for every entry (k, v) of defaults: if v is a function, member k *)
(* is a recorder with persistent behaviour v; otherwise a read of member k *)
(* returns v; and a member the defaults do not name (and a function does   *)
(* not carry by itself, which is C4) is generated on its first read.       *)
(***************************************************************************)
KeysOf(d) == {d[i].key : i \in 1..Len(d)}

C15_DefaultsInstalled ==
  [][\A d \in DefaultsInputs :
       createMockWithDefaults(d) =>
         LET root == Len(heap) + 1
         IN /\ last'.type = "return" /\ last'.value = StandIn(root)
            /\ Len(heap') >= root
            /\ \A i \in 1..Len(d) :
                 LET read == handlerGet(heap', root, d[i].key).value
                 IN IF IsFunction(d[i].value)
                    THEN /\ read.k = "standin"
                         /\ isMock(read, heap') = Outcome("return", Bool(TRUE))
                         /\ heap'[read.v].impl = UserFunctions[d[i].value.v]
                    ELSE read = d[i].value
            /\ \A p \in (AllNames \ MockMemberNames) \ (FunctionMembers \cup KeysOf(d)) :
                 ~PassesThrough(heap'[root], p)
    ]_vars

(***************************************************************************)
(* C16. createMockWithDefaults raises a TypeError to its caller whenever   *)
(* an entry of defaults holds a function under a name whose value on the   *)
(* root, looked up when the entry's turn comes, is not a mock; it never    *)
(* returns normally with such an entry left out.                           *)
(***************************************************************************)
NamesNonRecorder(h, root, d, i) ==
  LET before == installDefaults(h, root, SubSeq(d, 1, i - 1))
      got == handlerGet(before.heap, root, d[i].key)
  IN /\ before.type = "return"
     /\ IsFunction(d[i].value)
     /\ isMock(got.value, got.heap) # Outcome("return", Bool(TRUE))

C16_RaisesOnNonRecorder ==
  [][\A d \in DefaultsInputs :
       (/\ createMockWithDefaults(d)
        /\ \E i \in 1..Len(d) :
             NamesNonRecorder(createMockHeap(heap, 0, 0), Len(heap) + 1, d, i)) =>
         last'.type = "throw" /\ last'.value = TypeError
    ]_vars

(***************************************************************************)
(* C18. Every await of the value an invocation of a stand-in returned      *)
(* completes: the async function that reached the await eventually goes on *)
(* after it.                                                               *)
(***************************************************************************)
C18_AwaitCompletes ==
  \A k \in 1..MaxAwaits :
    [](Len(awaits) >= k => <>(Len(awaits) >= k /\ awaits[k].pc = "resumed"))

====
